---- MODULE Spec2Model ----
(***************************************************************************)
(* A model of web-image-optimizer-rs: the command line driver (main.rs),   *)
(* the Optimizer orchestration (optimizer.rs) and the resize / encoder     *)
(* wrappers (utils.rs).                                                    *)
(*                                                                         *)
(* Strings are sequences of one-character strings, so that path parsing,   *)
(* number formatting and file-name assembly are computed, not assumed.     *)
(* A quality (f32) is a pair <<whole, tenth>> standing for whole.tenth.    *)
(***************************************************************************)
EXTENDS Integers, Sequences, FiniteSets, TLC

VARIABLES
    img,            \* Optimizer.img: [w, h, bpp] (dimensions, bytes per pixel of as_bytes)
    base_path,      \* Optimizer.base_path
    target_sizes,   \* Optimizer.target_sizes: sequence of <<width, height>>
    compressor,     \* Optimizer.compressor: None or Some([quality, encoder])
    pc,             \* position of the running program
    idx,            \* position of the for loop of resize_and_maybe_compress / of main
    result,         \* what optimize / main returned: None, Ok or Err(message)
    log,            \* the resize, encode and filesystem operations performed, in order
    files,          \* the filesystem: path -> [by, w, h, complete]
    dirs,           \* the filesystem: the directories that exist
    lastQuality,    \* history: argument of the last set_quality call, or None
    lastEncoder,    \* history: argument of the last set_encoder call, or None
    srcDim,         \* main: <<w, h>> of the decoded image
    argWidths,      \* main: args.widths
    computed,       \* main: computed_target_dimensions
    pathIn,         \* generate_save_path: how base_path was built, and the width asked
    pathOut         \* generate_save_path: the results of the calls made so far

vars == <<img, base_path, target_sizes, compressor, pc, idx, result, log, files,
          dirs, lastQuality, lastEncoder, srcDim, argWidths, computed, pathIn, pathOut>>

mainVars == <<srcDim, argWidths, computed>>
pathVars == <<pathIn, pathOut>>

------------------------------------------------------------------------------
(* Bounds *)

MaxTargets == 2     \* longest target list given to the Optimizer
MaxDim == 6         \* small image dimensions 1..MaxDim for the dimension computation
MaxWidths == 2      \* longest --widths list given to main

------------------------------------------------------------------------------
(* Option and Result values *)

None == [tag |-> "None"]
Some(x) == [tag |-> "Some", val |-> x]
Ok(x) == [tag |-> "Ok", val |-> x]
Err(m) == [tag |-> "Err", msg |-> m]
Unit == <<>>

------------------------------------------------------------------------------
(* Number formatting: format!("{}", n) *)

Digits == <<"0", "1", "2", "3", "4", "5", "6", "7", "8", "9">>

RECURSIVE FormatNat(_)
FormatNat(n) ==
    IF n < 10 THEN <<Digits[n + 1]>>
    ELSE FormatNat(n \div 10) \o <<Digits[(n % 10) + 1]>>

\* Display of an f32 with at most one decimal: 80.0 prints "80", 75.5 prints "75.5".
FormatQuality(q) ==
    IF q[2] = 0 THEN FormatNat(q[1])
    ELSE FormatNat(q[1]) \o <<".">> \o FormatNat(q[2])

------------------------------------------------------------------------------
(* std::path on paths without "." / ".." directory components *)

RECURSIVE LastIndexOf(_, _)
LastIndexOf(s, c) ==
    IF s = <<>> THEN 0
    ELSE IF s[Len(s)] = c THEN Len(s)
    ELSE LastIndexOf(SubSeq(s, 1, Len(s) - 1), c)

\* Trailing separators are not part of the last component ("/" itself is the root).
RECURSIVE StripTrailingSep(_)
StripTrailingSep(p) ==
    IF Len(p) > 1 /\ p[Len(p)] = "/" THEN StripTrailingSep(SubSeq(p, 1, Len(p) - 1))
    ELSE p

\* Path::parent
Parent(p) ==
    LET s == StripTrailingSep(p)
        i == LastIndexOf(s, "/")
    IN  IF s = <<>> \/ s = <<"/">> THEN None
        ELSE IF i = 0 THEN Some(<<>>)
        ELSE IF i = 1 THEN Some(<<"/">>)
        ELSE Some(StripTrailingSep(SubSeq(s, 1, i - 1)))

\* Path::file_name
FileName(p) ==
    LET s == StripTrailingSep(p)
        i == LastIndexOf(s, "/")
        name == SubSeq(s, i + 1, Len(s))
    IN  IF s = <<>> \/ s = <<"/">> \/ name = <<".", ".">> THEN None
        ELSE Some(name)

\* Path::file_stem: the name up to its last ".", the whole name when it has no "."
\* or only a leading one.
FileStem(p) ==
    LET f == FileName(p)
    IN  IF f = None THEN None
        ELSE LET j == LastIndexOf(f.val, ".")
             IN  IF j <= 1 THEN Some(f.val)
                 ELSE Some(SubSeq(f.val, 1, j - 1))

\* Path::extension: what follows the last "." of the name, None when the name has
\* no "." or only a leading one.
Extension(p) ==
    LET f == FileName(p)
    IN  IF f = None THEN None
        ELSE LET j == LastIndexOf(f.val, ".")
             IN  IF j <= 1 THEN None
                 ELSE Some(SubSeq(f.val, j + 1, Len(f.val)))

\* PathBuf::push of a relative component
Push(p, c) ==
    IF p = <<>> \/ p[Len(p)] = "/" THEN p \o c
    ELSE p \o <<"/">> \o c

------------------------------------------------------------------------------
(* optimizer.rs: Compressor *)

Encoders == {"WebP", "MozJpeg"}

\* Compressor::new
CompressorNew(quality) == [quality |-> quality, encoder |-> "MozJpeg"]

\* Compressor::set_quality
CompressorSetQuality(c, quality) == [c EXCEPT !.quality = quality]

\* Compressor::set_encoder
CompressorSetEncoder(c, encoder) == [c EXCEPT !.encoder = encoder]

\* The quality Optimizer::set_encoder gives a compressor it has to create: 75.0
DefaultQuality == <<75, 0>>

------------------------------------------------------------------------------
(* optimizer.rs: Optimizer::generate_save_path *)

OptimizedDir == <<"o", "p", "t", "i", "m", "i", "z", "e", "d">>
WebpExt == <<"w", "e", "b", "p">>

NoParentMsg == "Provided image must have a parent directory"
NoStemMsg == "Error getting file name"
NoExtMsg == "Expected an extension present on image path"

\* Mutant of SaveSuffix: the WebP arm pushes the source extension like the MozJpeg arm.
SaveSuffixSourceExt(path, comp) ==
    LET ext == Extension(path)
    IN  IF ext = None THEN Err(NoExtMsg)
        ELSE IF comp # None
        THEN Ok(<<"_">> \o FormatQuality(comp.val.quality) \o <<".">> \o ext.val)
        ELSE Ok(<<".">> \o ext.val)

\* The part of the file name after "<stem>_<w>": Ok(suffix) or the extension error.
SaveSuffix(path, comp) ==
    LET ext == Extension(path)
    IN  IF comp # None
        THEN LET q == <<"_">> \o FormatQuality(comp.val.quality) \o <<".">>
             IN  IF comp.val.encoder = "MozJpeg"
                 THEN IF ext = None THEN Err(NoExtMsg) ELSE Ok(q \o ext.val)
                 ELSE Ok(q \o WebpExt)
        ELSE IF ext = None THEN Err(NoExtMsg) ELSE Ok(<<".">> \o ext.val)

generate_save_path(path, comp, w) ==
    LET parent == Parent(path)
        stem == FileStem(path)
    IN  IF parent = None THEN Err(NoParentMsg)
        ELSE IF stem = None THEN Err(NoStemMsg)
        ELSE LET suffix == SaveSuffix(path, comp)
             IN  IF suffix.tag = "Err" THEN suffix
                 ELSE Ok(Push(Push(parent.val, OptimizedDir),
                              stem.val \o <<"_">> \o FormatNat(w) \o suffix.val))

------------------------------------------------------------------------------
(* main.rs: compute_height_preserving_aspect_ratio *)

Panic(m) == [tag |-> "Panic", msg |-> m]
DivByZeroMsg == "attempt to divide by zero"

\* usize division panics on a zero divisor.
CheckedDiv(a, b) == IF b = 0 THEN Panic(DivByZeroMsg) ELSE Ok(a \div b)

\* Mutant of compute_height_preserving_aspect_ratio: the operands of the factor swapped.
compute_height_swapped_factor(img_dimensions, target_width) ==
    LET w == img_dimensions[1]
        h == img_dimensions[2]
        factor == CheckedDiv(target_width, w)
    IN  IF factor.tag = "Panic" THEN factor
        ELSE CheckedDiv(h, factor.val)

\* Mutant of compute_height_preserving_aspect_ratio: the factor rounded up.
compute_height_ceil_factor(img_dimensions, target_width) ==
    LET w == img_dimensions[1]
        h == img_dimensions[2]
        factor == CheckedDiv(w + target_width - 1, target_width)
    IN  IF factor.tag = "Panic" THEN factor
        ELSE CheckedDiv(h, factor.val)

compute_height_preserving_aspect_ratio(img_dimensions, target_width) ==
    LET w == img_dimensions[1]
        h == img_dimensions[2]
        factor == CheckedDiv(w, target_width)
    IN  IF factor.tag = "Panic" THEN factor
        ELSE CheckedDiv(h, factor.val)

------------------------------------------------------------------------------
(* main.rs: main, the loop over args.widths (lines 41-50) *)

SrcWidths == (1 .. MaxDim) \cup {200, 400, 800}
SrcHeights == (1 .. MaxDim) \cup {600}
ArgWidthValues == (0 .. MaxDim) \cup {200, 400}

SeqsUpTo(S, n) == UNION {[1 .. k -> S] : k \in 0 .. n}

InitMain ==
    /\ srcDim \in SrcWidths \X SrcHeights
    /\ argWidths \in SeqsUpTo(ArgWidthValues, MaxWidths)
    /\ computed = <<>>
    /\ pc = "main_widths"
    /\ idx = 1
    /\ result = None
    /\ target_sizes = <<>>
    /\ compressor = None
    /\ img = [w |-> srcDim[1], h |-> srcDim[2], bpp |-> 3]
    /\ base_path = <<>>
    /\ log = <<>>
    /\ files = {}
    /\ dirs = {}
    /\ lastQuality = None
    /\ lastEncoder = None
    /\ pathIn = None
    /\ pathOut = <<>>

\* One iteration of `for target_width in target_widths`: a panic ends the process.
MainComputeTarget ==
    /\ pc = "main_widths"
    /\ idx <= Len(argWidths)
    /\ LET target_width == argWidths[idx]
           target_height == compute_height_preserving_aspect_ratio(srcDim, target_width)
       IN  IF target_height.tag = "Panic"
           THEN /\ pc' = "panicked"
                /\ result' = target_height
                /\ UNCHANGED <<computed, idx>>
           ELSE /\ computed' = Append(computed, <<target_width, target_height.val>>)
                /\ idx' = idx + 1
                /\ UNCHANGED <<pc, result>>
    /\ UNCHANGED <<img, base_path, target_sizes, compressor, log, files, dirs,
                   lastQuality, lastEncoder, srcDim, argWidths, pathIn, pathOut>>

\* optimizer.set_targets(computed_target_dimensions) once the loop is over.
MainSetTargets ==
    /\ pc = "main_widths"
    /\ idx > Len(argWidths)
    /\ target_sizes' = computed
    /\ pc' = "main_configured"
    /\ UNCHANGED <<img, base_path, compressor, idx, result, log, files, dirs,
                   lastQuality, lastEncoder, srcDim, argWidths, computed, pathIn, pathOut>>

NextMain == MainComputeTarget \/ MainSetTargets

SpecMain == InitMain /\ [][NextMain]_vars

------------------------------------------------------------------------------
(* Optimizer::generate_save_path as a function of its inputs *)

PathDirs == {<<>>, <<"/">>, <<"d">>, <<"/", "d">>, <<"d", "/", "e">>}
PathStems == {<<"i">>, <<"a", ".", "b">>, <<".", "h">>}
PathExts == {<<"j">>, <<"p", "n", "g">>, WebpExt}
PathWidths == {0, 7, 10, 400, 1920}
PathQualities == {<<0, 0>>, <<75, 5>>, <<80, 0>>, <<100, 0>>}

\* A source path written from its directory, stem and extension.
BuildPath(parts) ==
    (IF parts.dir = <<>> \/ parts.dir = <<"/">> THEN parts.dir ELSE parts.dir \o <<"/">>)
        \o parts.stem \o <<".">> \o parts.ext

\* Source paths that lack a parent, a stem or an extension.
PartlessPaths ==
    {<<>>, <<"/">>, <<".", ".">>, <<"d", "/", "n">>, <<"d", "/", ".", "h">>, <<"d", "/">>}

CompressorOptions(Q) ==
    {None} \cup {Some([quality |-> q, encoder |-> e]) : q \in Q, e \in Encoders}

InitPath ==
    /\ \E w \in PathWidths :
          \/ \E d \in PathDirs, s \in PathStems, e \in PathExts :
                LET parts == [dir |-> d, stem |-> s, ext |-> e]
                IN  /\ pathIn = [parts |-> Some(parts), w |-> w]
                    /\ base_path = BuildPath(parts)
          \/ \E p \in PartlessPaths :
                /\ pathIn = [parts |-> None, w |-> w]
                /\ base_path = p
    /\ compressor \in CompressorOptions(PathQualities)
    /\ pathOut = <<>>
    /\ pc = "path"
    /\ idx = 1
    /\ result = None
    /\ target_sizes = <<>>
    /\ img = [w |-> 1, h |-> 1, bpp |-> 3]
    /\ log = <<>>
    /\ files = {}
    /\ dirs = {}
    /\ lastQuality = None
    /\ lastEncoder = None
    /\ srcDim = <<1, 1>>
    /\ argWidths = <<>>
    /\ computed = <<>>

\* A call of generate_save_path(&self, w): it reads the Optimizer and changes nothing.
CallGenerateSavePath ==
    /\ pc = "path"
    /\ Len(pathOut) < 2
    /\ pathOut' = Append(pathOut, generate_save_path(base_path, compressor, pathIn.w))
    /\ UNCHANGED <<img, base_path, target_sizes, compressor, pc, idx, result, log, files,
                   dirs, lastQuality, lastEncoder, srcDim, argWidths, computed, pathIn>>

NextPath == CallGenerateSavePath

SpecPath == InitPath /\ [][NextPath]_vars

------------------------------------------------------------------------------
(* utils.rs *)

RgbBytes(w, h) == w * h * 3

\* utils::resize: the resizer may refuse to be built or to run; when it runs, the
\* result is dest_width * dest_height RGB pixels as bytes.
resize(img_len, config) ==
    {Err("Error creating resizer"), Err("Error resizing image"),
     Ok(RgbBytes(config.dest_width, config.dest_height))}

\* What the closure given to catch_unwind does: the encoder writes all scanlines
\* only when the buffer holds exactly width * height RGB pixels (the assert! of
\* write_scanlines and the encoder's own aborts unwind), and data_to_vec may fail.
MozjpegClosure(img_len, width, height) ==
    IF img_len = RgbBytes(width, height)
    THEN {Ok([format |-> "jpeg", w |-> width, h |-> height]),
          Err("Image compression failed"), Panic("encoder abort")}
    ELSE {Panic("assertion failed: comp.write_scanlines(img)")}

\* utils::compress_mozjpeg: catch_unwind turns an unwinding panic into an error.
compress_mozjpeg(img_len, width, height, quality) ==
    {IF r.tag = "Panic" THEN Err("Error compressing image") ELSE r :
        r \in MozjpegClosure(img_len, width, height)}

Crash == [tag |-> "Crash"]

\* utils::compress_webp: no check of the buffer and no error path; the encoder reads
\* width * height * 3 bytes, which is out of bounds for a shorter buffer (the call
\* then returns bytes all the same or the process dies).
compress_webp(img_len, width, height, quality) ==
    {Ok([format |-> "webp", w |-> width, h |-> height])}
        \cup (IF img_len < RgbBytes(width, height) THEN {Crash} ELSE {})

Event(op, k, w, h, ok) == [op |-> op, k |-> k, w |-> w, h |-> h, ok |-> ok]

Logged(fs, e) == [fs EXCEPT !.log = Append(@, e)]

\* utils::ensure_parent_directory_exists; fs is [files, dirs, log], v the variant
\* [k, w, h] and mkdir_ok whether create_dir_all succeeds.
ensure_parent_directory_exists(path, fs, v, mkdir_ok) ==
    LET parent == Parent(path)
        e == Event("create_dir_all", v.k, v.w, v.h, mkdir_ok)
    IN  IF parent = None \/ parent.val \in fs.dirs THEN [res |-> Ok(Unit), fs |-> fs]
        ELSE IF mkdir_ok
        THEN [res |-> Ok(Unit), fs |-> Logged([fs EXCEPT !.dirs = @ \cup {parent.val}], e)]
        ELSE [res |-> Err("io: create_dir_all"), fs |-> Logged(fs, e)]

------------------------------------------------------------------------------
(* The filesystem calls of optimizer.rs *)

PutFile(fs_files, path, v, complete) ==
    {f \in fs_files : f.path # path}
        \cup {[path |-> path, by |-> v.k, w |-> v.w, h |-> v.h, complete |-> complete]}

\* File::create: an existing file is truncated.
FileCreate(path, fs, v, ok) ==
    LET e == Event("File::create", v.k, v.w, v.h, ok)
    IN  IF ok
        THEN [res |-> Ok(Unit),
              fs |-> Logged([fs EXCEPT !.files = PutFile(@, path, v, FALSE)], e)]
        ELSE [res |-> Err("io: File::create"), fs |-> Logged(fs, e)]

\* file.write_all
WriteAll(path, fs, v, ok) ==
    LET e == Event("write_all", v.k, v.w, v.h, ok)
    IN  IF ok
        THEN [res |-> Ok(Unit),
              fs |-> Logged([fs EXCEPT !.files = PutFile(@, path, v, TRUE)], e)]
        ELSE [res |-> Err("io: write_all"), fs |-> Logged(fs, e)]

SaveOutcomes == {"ok", "err_format", "err_write"}

\* image::save_buffer: it fails before touching the file (no encoder for the
\* extension, the file cannot be created) or while writing the file it created.
SaveBuffer(path, fs, v, outcome) ==
    LET e == Event("save_buffer", v.k, v.w, v.h, outcome = "ok")
    IN  IF outcome = "ok"
        THEN [res |-> Ok(Unit),
              fs |-> Logged([fs EXCEPT !.files = PutFile(@, path, v, TRUE)], e)]
        ELSE IF outcome = "err_write"
        THEN [res |-> Err("image: save_buffer"),
              fs |-> Logged([fs EXCEPT !.files = PutFile(@, path, v, FALSE)], e)]
        ELSE [res |-> Err("image: save_buffer"), fs |-> Logged(fs, e)]

\* ensure_parent_directory_exists(&write_path)?; File::create(write_path)?;
\* file.write_all(&optimized)?  (optimizer.rs 167-169 and 207-209)
WriteEncoded(path, fs, v, ch) ==
    LET d == ensure_parent_directory_exists(path, fs, v, ch.mkdir)
    IN  IF d.res.tag # "Ok" THEN d
        ELSE LET c == FileCreate(path, d.fs, v, ch.create)
             IN  IF c.res.tag # "Ok" THEN c
                 ELSE WriteAll(path, c.fs, v, ch.write)

\* ensure_parent_directory_exists(&write_path)?; image::save_buffer(..)?  (211-218)
WriteRaw(path, fs, v, ch) ==
    LET d == ensure_parent_directory_exists(path, fs, v, ch.mkdir)
    IN  IF d.res.tag # "Ok" THEN d
        ELSE SaveBuffer(path, d.fs, v, ch.save)

\* The match on compressor.encoder: the outcomes of the encoder call.
Encode(comp, img_len, w, h) ==
    IF comp.encoder = "WebP" THEN compress_webp(img_len, w, h, comp.quality)
    ELSE compress_mozjpeg(img_len, w, h, comp.quality)

\* The outcomes of the environment in one variant: directory creation, file
\* creation, file write, save_buffer.
IoChoices == [mkdir : BOOLEAN, create : BOOLEAN, write : BOOLEAN, save : SaveOutcomes]

------------------------------------------------------------------------------
(* optimizer.rs: Optimizer *)

NoCompressorMsg == "Must provide a quality value/compressor to compress an image"
NoTargetMsg == "Must provide at least one resize target size"

\* Mutant of set_encoder_value: the compressor it creates keeps Compressor::new's encoder.
set_encoder_value_unapplied(comp, encoder) ==
    IF comp = None THEN Some(CompressorNew(DefaultQuality))
    ELSE Some(CompressorSetEncoder(comp.val, encoder))

\* Optimizer::set_encoder
set_encoder_value(comp, encoder) ==
    IF comp = None THEN Some(CompressorSetEncoder(CompressorNew(DefaultQuality), encoder))
    ELSE Some(CompressorSetEncoder(comp.val, encoder))

\* Optimizer::set_quality
set_quality_value(comp, quality) ==
    IF comp = None THEN Some(CompressorNew(quality))
    ELSE Some(CompressorSetQuality(comp.val, quality))

\* Mutant of RequireCompressor: a missing compressor replaced by a default one.
RequireCompressorOrDefault(comp) ==
    IF comp = None THEN Ok(CompressorNew(DefaultQuality)) ELSE Ok(comp.val)

\* The match at the head of compress_self (149-154).
RequireCompressor(comp) ==
    IF comp = None THEN Err(NoCompressorMsg) ELSE Ok(comp.val)

\* self.img.as_bytes().len()
ImgBytes(image) == image.w * image.h * image.bpp

\* The variant compress_self writes: position 0, the source dimensions.
SelfVariant(image) == [k |-> 0, w |-> image.w, h |-> image.h]

\* Optimizer::compress_self: every [res, fs] it can end in from filesystem fs.
compress_self(image, path, comp, fs) ==
    LET c == RequireCompressor(comp)
        v == SelfVariant(image)
        write_path == generate_save_path(path, comp, v.w)
    IN  IF c.tag = "Err" THEN {[res |-> c, fs |-> fs]}
        ELSE IF write_path.tag = "Err" THEN {[res |-> write_path, fs |-> fs]}
        ELSE UNION {
            LET fs1 == Logged(fs, Event("encode", v.k, v.w, v.h, optimized.tag = "Ok"))
            IN  IF optimized.tag # "Ok" THEN {[res |-> optimized, fs |-> fs1]}
                ELSE {WriteEncoded(write_path.val, fs1, v, ch) : ch \in IoChoices}
            : optimized \in Encode(c.val, ImgBytes(image), v.w, v.h)}

\* The ResizeConfig of the k-th target (181-186).
ResizeConfigOf(image, target) ==
    [src_height |-> image.h, src_width |-> image.w,
     dest_height |-> target[2], dest_width |-> target[1]]

\* The body of the for loop of resize_and_maybe_compress for the k-th target
\* (181-219): every [res, fs] it can end in from filesystem fs.
ResizeTarget(image, path, comp, targets, k, fs) ==
    LET v == [k |-> k, w |-> targets[k][1], h |-> targets[k][2]]
        write_path == generate_save_path(path, comp, v.w)
    IN  IF write_path.tag = "Err" THEN {[res |-> write_path, fs |-> fs]}
        ELSE UNION {
            LET fs1 == Logged(fs, Event("resize", v.k, v.w, v.h, resized_img.tag = "Ok"))
            IN  IF resized_img.tag # "Ok" THEN {[res |-> resized_img, fs |-> fs1]}
                ELSE IF comp # None
                THEN UNION {
                    LET fs2 == Logged(fs1, Event("encode", v.k, v.w, v.h,
                                                 optimized.tag = "Ok"))
                    IN  IF optimized.tag # "Ok" THEN {[res |-> optimized, fs |-> fs2]}
                        ELSE {WriteEncoded(write_path.val, fs2, v, ch) : ch \in IoChoices}
                    : optimized \in Encode(comp.val, resized_img.val, v.w, v.h)}
                ELSE {WriteRaw(write_path.val, fs1, v, ch) : ch \in IoChoices}
            : resized_img \in resize(ImgBytes(image), ResizeConfigOf(image, targets[k]))}

\* Mutant of NextTarget: the loop steps over a target.
NextTargetSkipping(k) == k + 2

\* The position after the k-th target of the for loop.
NextTarget(k) == k + 1

------------------------------------------------------------------------------
(* The Optimizer as a state machine: configuration calls, then one optimize *)

SrcImages == {[w |-> 4, h |-> 2, bpp |-> b] : b \in {1, 3, 4}}
BasePaths == {<<"d", "/", "i", ".", "j">>, <<"n">>, <<"/">>}
TargetValues == {1, 2} \X {1, 2}
Qualities == {<<80, 0>>, <<75, 5>>}

\* The directory the outputs of base path p go to, when p has a parent.
OutputDirs(p) == IF Parent(p) = None THEN {} ELSE {Push(Parent(p).val, OptimizedDir)}

Init ==
    /\ img \in SrcImages
    /\ base_path \in BasePaths
    /\ target_sizes = <<>>
    /\ compressor = None
    /\ pc = "config"
    /\ idx = 1
    /\ result = None
    /\ log = <<>>
    /\ files = {}
    /\ dirs \in SUBSET OutputDirs(base_path)
    /\ lastQuality = None
    /\ lastEncoder = None
    /\ srcDim = <<img.w, img.h>>
    /\ argWidths = <<>>
    /\ computed = <<>>
    /\ pathIn = None
    /\ pathOut = <<>>

set_encoder ==
    /\ pc = "config"
    /\ \E encoder \in Encoders :
          /\ compressor' = set_encoder_value(compressor, encoder)
          /\ lastEncoder' = Some(encoder)
    /\ UNCHANGED <<img, base_path, target_sizes, pc, idx, result, log, files, dirs,
                   lastQuality, mainVars, pathVars>>

set_quality ==
    /\ pc = "config"
    /\ \E quality \in Qualities :
          /\ compressor' = set_quality_value(compressor, quality)
          /\ lastQuality' = Some(quality)
    /\ UNCHANGED <<img, base_path, target_sizes, pc, idx, result, log, files, dirs,
                   lastEncoder, mainVars, pathVars>>

set_targets ==
    /\ pc = "config"
    /\ \E ts \in SeqsUpTo(TargetValues, MaxTargets) : target_sizes' = ts
    /\ UNCHANGED <<img, base_path, compressor, pc, idx, result, log, files, dirs,
                   lastQuality, lastEncoder, mainVars, pathVars>>

add_target ==
    /\ pc = "config"
    /\ Len(target_sizes) < MaxTargets
    /\ \E target \in TargetValues : target_sizes' = Append(target_sizes, target)
    /\ UNCHANGED <<img, base_path, compressor, pc, idx, result, log, files, dirs,
                   lastQuality, lastEncoder, mainVars, pathVars>>

Fs == [files |-> files, dirs |-> dirs, log |-> log]

\* The program after a call that ended in [res, fs]: returned or dead.
Returned(o) ==
    /\ pc' = IF o.res.tag = "Crash" THEN "crashed" ELSE "done"
    /\ result' = IF o.res.tag = "Crash" THEN None ELSE o.res
    /\ files' = o.fs.files
    /\ dirs' = o.fs.dirs
    /\ log' = o.fs.log

\* Optimizer::optimize with no target: compress_self, to its return.
optimize_compress_self ==
    /\ pc = "config"
    /\ Len(target_sizes) = 0
    /\ \E o \in compress_self(img, base_path, compressor, Fs) : Returned(o)
    /\ UNCHANGED <<img, base_path, target_sizes, compressor, idx, lastQuality,
                   lastEncoder, mainVars, pathVars>>

\* Optimizer::optimize with targets: resize_and_maybe_compress up to its for loop.
optimize_resize ==
    /\ pc = "config"
    /\ Len(target_sizes) # 0
    /\ IF target_sizes = <<>>
       THEN /\ pc' = "done"
            /\ result' = Err(NoTargetMsg)
            /\ idx' = idx
       ELSE /\ pc' = "loop"
            /\ result' = result
            /\ idx' = 1
    /\ UNCHANGED <<img, base_path, target_sizes, compressor, log, files, dirs,
                   lastQuality, lastEncoder, mainVars, pathVars>>

\* One iteration of the for loop; `?` returns the first error, and the end of the
\* loop returns Ok(()).
resize_and_maybe_compress ==
    /\ pc = "loop"
    /\ \E o \in ResizeTarget(img, base_path, compressor, target_sizes, idx, Fs) :
          IF o.res.tag = "Ok" /\ NextTarget(idx) <= Len(target_sizes)
          THEN /\ idx' = NextTarget(idx)
               /\ files' = o.fs.files
               /\ dirs' = o.fs.dirs
               /\ log' = o.fs.log
               /\ UNCHANGED <<pc, result>>
          ELSE /\ Returned(o)
               /\ idx' = idx
    /\ UNCHANGED <<img, base_path, target_sizes, compressor, lastQuality, lastEncoder,
                   mainVars, pathVars>>

Next ==
    \/ set_encoder
    \/ set_quality
    \/ set_targets
    \/ add_target
    \/ optimize_compress_self
    \/ optimize_resize
    \/ resize_and_maybe_compress

Spec == Init /\ [][Next]_vars

------------------------------------------------------------------------------
(* Properties of the dimension computation, under SpecMain *)

\* main has called compute_height_preserving_aspect_ratio for the k-th width.
Processed(k) == k < idx \/ (k = idx /\ pc = "panicked")

\* C1: for positive source dimensions and a target width greater than the source
\* width, the dimension computation ends in a reported InvalidTarget error and
\* never in a division by zero or a panic.
C1_UpscaleReportsInvalidTarget ==
    \A k \in 1 .. Len(argWidths) :
        (Processed(k) /\ argWidths[k] > srcDim[1])
            => (pc # "panicked" /\ result = Err("InvalidTarget"))

\* C7: when the target width is positive and divides the source width, the computed
\* height is exactly source_height * target_width / source_width.
C7_ExactWhenWidthDivides ==
    \A k \in 1 .. Len(argWidths) :
        (Processed(k) /\ argWidths[k] > 0 /\ srcDim[1] % argWidths[k] = 0)
            => /\ k <= Len(computed)
               /\ computed[k] = <<argWidths[k], (srcDim[2] * argWidths[k]) \div srcDim[1]>>

\* C7 witness: 800x600 with widths 400 and 200 gives heights 300 and 150.
C7_Witness ==
    /\ srcDim = <<800, 600>>
    /\ argWidths = <<400, 200>>
    /\ computed = <<<<400, 300>>, <<200, 150>>>>

\* C10: for 1 <= target_width <= source_width the computed height is at least the
\* proportional height floor(sh * tw / sw) and at most the source height, and when
\* the width does not divide the source width it is sh / floor(sw / tw).
C10_TruncationNeverShortens ==
    \A k \in 1 .. Len(argWidths) :
        (Processed(k) /\ 1 <= argWidths[k] /\ argWidths[k] <= srcDim[1])
            => /\ k <= Len(computed)
               /\ computed[k][1] = argWidths[k]
               /\ computed[k][2] >= (srcDim[2] * argWidths[k]) \div srcDim[1]
               /\ computed[k][2] <= srcDim[2]
               /\ (srcDim[1] % argWidths[k] # 0
                     => computed[k][2] = srcDim[2] \div (srcDim[1] \div argWidths[k]))

\* C10 witness: a width that does not divide the source width has been given a
\* height strictly above the proportional one.
C10_Witness ==
    \E k \in 1 .. Len(computed) :
        /\ srcDim[1] % computed[k][1] # 0
        /\ computed[k][1] < srcDim[1]
        /\ computed[k][2] > (srcDim[2] * computed[k][1]) \div srcDim[1]

------------------------------------------------------------------------------
(* Properties of generate_save_path, under SpecPath *)

\* <source_dir>/optimized/<stem>_<w>[_<quality>].<ext> written from the parts the
\* source path was built from.
ExpectedSavePath(parts, w, comp) ==
    (IF parts.dir = <<>> \/ parts.dir = <<"/">> THEN parts.dir ELSE parts.dir \o <<"/">>)
        \o OptimizedDir \o <<"/">> \o parts.stem \o <<"_">> \o FormatNat(w)
        \o (IF comp = None THEN <<>> ELSE <<"_">> \o FormatQuality(comp.val.quality))
        \o <<".">>
        \o (IF comp # None /\ comp.val.encoder = "WebP" THEN WebpExt ELSE parts.ext)

\* C5: for a source path with a parent, a stem and an extension, generate_save_path
\* returns <source_dir>/optimized/<stem>_<w>[_<quality>].<ext>: no quality suffix and
\* the source extension without a compressor, the suffix and "webp" (WebP) or the
\* source extension (MozJpeg) with one; two calls with the same inputs agree.
C5_SavePathFormat ==
    (pathIn # None /\ pathIn.parts # None)
        => /\ \A n \in 1 .. Len(pathOut) :
                 pathOut[n] = Ok(ExpectedSavePath(pathIn.parts.val, pathIn.w, compressor))
           /\ (Len(pathOut) = 2 => pathOut[1] = pathOut[2])

\* C5 witness: two calls made with the WebP encoder on a source that is not webp.
C5_Witness ==
    /\ pathIn # None
    /\ pathIn.parts # None
    /\ pathIn.parts.val.ext # WebpExt
    /\ compressor # None
    /\ compressor.val.encoder = "WebP"
    /\ Len(pathOut) = 2
    /\ pathOut[2].tag = "Ok"

------------------------------------------------------------------------------
(* Properties of the Optimizer, under Spec *)

IsWrite(e) == e.op \in {"write_all", "save_buffer"}

\* The operations of the log made for position k, directory creation left out.
OpsOf(k) ==
    LET Keep(e) == e.k = k /\ e.op # "create_dir_all"
        kept == SelectSeq(log, Keep)
    IN  [n \in 1 .. Len(kept) |-> kept[n].op]

\* The save path of the k-th target.
TargetPath(k) == generate_save_path(base_path, compressor, target_sizes[k][1])

\* C2: optimize on an Optimizer with no target and no compressor returns the
\* configuration error, and no filesystem action has occurred when it returns.
C2_NothingConfiguredFailsBeforeFilesystem ==
    (pc # "config" /\ target_sizes = <<>> /\ compressor = None)
        => /\ pc = "done"
           /\ result = Err(NoCompressorMsg)
           /\ log = <<>>
           /\ files = {}

\* C2 witness: optimize has returned on an unconfigured Optimizer.
C2_Witness ==
    /\ pc = "done"
    /\ target_sizes = <<>>
    /\ compressor = None
    /\ lastQuality = None
    /\ lastEncoder = None
    /\ result.tag = "Err"

\* C3: a successful optimize makes exactly one file write per requested variant:
\* with n >= 1 targets n writes, the i-th for the i-th target, each variant resized,
\* encoded or saved and written before the next one starts; with no target and a
\* compressor one write, for the source width and height.
C3_OneWritePerVariantInOrder ==
    (pc = "done" /\ result = Ok(Unit))
        => LET writes == SelectSeq(log, IsWrite)
               n == Len(target_sizes)
           IN  /\ \A a, b \in 1 .. Len(log) : a < b => log[a].k <= log[b].k
               /\ \A a \in 1 .. Len(writes) : writes[a].ok
               /\ IF n = 0
                  THEN /\ compressor # None
                       /\ Len(writes) = 1
                       /\ writes[1].k = 0
                       /\ <<writes[1].w, writes[1].h>> = <<img.w, img.h>>
                       /\ OpsOf(0) = <<"encode", "File::create", "write_all">>
                  ELSE /\ Len(writes) = n
                       /\ \A i \in 1 .. n :
                             /\ writes[i].k = i
                             /\ <<writes[i].w, writes[i].h>> = target_sizes[i]
                             /\ OpsOf(i) = IF compressor # None
                                           THEN <<"resize", "encode", "File::create",
                                                  "write_all">>
                                           ELSE <<"resize", "save_buffer">>

\* C3 witness: a successful run over two different targets with a compressor.
C3_Witness ==
    /\ pc = "done"
    /\ result = Ok(Unit)
    /\ Len(target_sizes) = 2
    /\ target_sizes[1][1] # target_sizes[2][1]
    /\ compressor # None

\* C4: when the k-th target fails, optimize returns that error, nothing is resized,
\* encoded or written for a later target, and every file written for the targets
\* before the k-th is still present and as it was written.
C4_FailFastKeepsEarlierFiles ==
    (pc = "done" /\ target_sizes # <<>> /\ result.tag = "Err")
        => /\ \A a \in 1 .. Len(log) : log[a].k <= idx
           /\ \A j \in 1 .. (idx - 1) :
                 \E f \in files :
                    /\ f.path = TargetPath(j).val
                    /\ <<f.w, f.h>> = target_sizes[j]
                    /\ f.complete

\* C6: within one run the paths written for two different positions of the target
\* sequence are different, so no variant's file is overwritten by a later variant.
C6_NoPathCollision ==
    \A a, b \in 1 .. Len(log) :
        (IsWrite(log[a]) /\ log[a].ok /\ IsWrite(log[b]) /\ log[b].ok
            /\ log[a].k # log[b].k)
            => TargetPath(log[a].k) # TargetPath(log[b].k)

\* C8: an encoder given a buffer whose length is not width * height * 3 returns an
\* error: it neither returns encoded bytes nor ends the process, and optimize
\* writes no file for that variant.
C8_BufferShapeEnforced ==
    \A a \in 1 .. Len(log) :
        LET e == log[a]
            len == IF e.k = 0 THEN ImgBytes(img) ELSE RgbBytes(e.w, e.h)
        IN  (e.op = "encode" /\ len # RgbBytes(e.w, e.h))
                => /\ ~e.ok
                   /\ pc # "crashed"
                   /\ \A f \in files : f.by # e.k

\* C9: the compressor is present exactly when a setter was called; its quality is
\* the argument of the last set_quality call, or 75 without one; its encoder is the
\* argument of the last set_encoder call, or MozJpeg without one; and a step that
\* changes the compressor leaves the target list alone.
C9_SettersCompose ==
    /\ [](/\ (compressor # None) <=> (lastQuality # None \/ lastEncoder # None)
          /\ compressor # None =>
                /\ compressor.val.quality =
                      (IF lastQuality = None THEN <<75, 0>> ELSE lastQuality.val)
                /\ compressor.val.encoder =
                      (IF lastEncoder = None THEN "MozJpeg" ELSE lastEncoder.val))
    /\ [][(compressor' # compressor \/ lastQuality' # lastQuality
              \/ lastEncoder' # lastEncoder) => target_sizes' = target_sizes]_vars

\* C9 witness: set_encoder(WebP) alone, with targets configured.
C9_Witness ==
    /\ lastQuality = None
    /\ lastEncoder = Some("WebP")
    /\ compressor = Some([quality |-> <<75, 0>>, encoder |-> "WebP"])
    /\ target_sizes # <<>>

====
